---- MODULE Spec2Model ----
(***************************************************************************)
(* flask_accepts: the accepts(...) and responds(...) decorators and the    *)
(* _is_method helper of src/flask_accepts/decorators/decorators.py.        *)
(*                                                                         *)
(* SpecAccepts     one request through an accepts-decorated route          *)
(* SpecConcurrent  several interleaved requests through the same route     *)
(* SpecResponds    one invocation of a responds-decorated handler          *)
(***************************************************************************)
EXTENDS Integers, Sequences, FiniteSets, TLC

\* ------------------------------------------------------------------ bounds
\* Longest raw query-string value of a request.
MaxRawLen == 1
\* Longest list in a JSON body or in a handler's return value.
MaxItems == 2
\* Requests in flight at once under SpecConcurrent.
NumReqs == 2
\* Longest declared parameter list of a decorated callable.
MaxParams == 2

\* ------------------------------------------------------------------ values
\* A Python/JSON scalar: t is its type, n its number, s its characters.
IntV(n) == [t |-> "int", n |-> n, s |-> <<>>]
FloatV(n) == [t |-> "float", n |-> n, s |-> <<>>]
StrV(s) == [t |-> "str", n |-> 0, s |-> s]
BoolV(b) == [t |-> "bool", n |-> IF b THEN 1 ELSE 0, s |-> <<>>]
NoneV == [t |-> "none", n |-> 0, s |-> <<>>]

\* A dict with no keys.
EmptyObj == [f \in {} |-> NoneV]
\* A Python/JSON value: k says which of o (a dict / an object's attributes)
\* and l (a list of them) is meant; "none" is None.
ObjD(o) == [k |-> "obj", o |-> o, l |-> <<>>]
ListD(l) == [k |-> "list", o |-> EmptyObj, l |-> l]
NoneD == [k |-> "none", o |-> EmptyObj, l |-> <<>>]
\* An attribute that was never assigned.
Unset == [k |-> "unset", o |-> EmptyObj, l |-> <<>>]

\* Sequences over S of length at most n.
SeqsUpTo(S, n) == UNION {[1..m -> S] : m \in 0..n}

\* ------------------------------------------------------ int(), str(), float()
DigitVal == [c \in {"0", "1", "2", "3", "4", "5", "6", "7", "8", "9"} |->
              CASE c = "0" -> 0 [] c = "1" -> 1 [] c = "2" -> 2 [] c = "3" -> 3
                [] c = "4" -> 4 [] c = "5" -> 5 [] c = "6" -> 6 [] c = "7" -> 7
                [] c = "8" -> 8 [] c = "9" -> 9]
DigitChar == <<"0", "1", "2", "3", "4", "5", "6", "7", "8", "9">>

\* Whether int(s) succeeds on the characters s (digits only in this alphabet).
IsIntText(s) == Len(s) > 0 /\ \A i \in 1..Len(s) : s[i] \in DOMAIN DigitVal

RECURSIVE IntOfText(_)
\* int(s) for a digit string.
IntOfText(s) ==
  IF Len(s) = 0 THEN 0
  ELSE 10 * IntOfText(SubSeq(s, 1, Len(s) - 1)) + DigitVal[s[Len(s)]]

RECURSIVE TextOfInt(_)
\* str(n) for n >= 0.
TextOfInt(n) ==
  IF n < 10 THEN <<DigitChar[n + 1]>>
  ELSE Append(TextOfInt(n \div 10), DigitChar[(n % 10) + 1])

\* ------------------------------------------------------------ the schema
\* The schema class handed to the decorators: id = fields.Number, name = fields.String.
SchemaFields == [f \in {"id", "name"} |-> IF f = "id" THEN "Number" ELSE "String"]

\* Field.deserialize of the schema library, by field type: ok says whether the
\* value validates, val is the deserialized value.  Number takes float(value),
\* String takes text only.
LoadField(ftype, v) ==
  IF ftype = "Number"
  THEN IF v.t \in {"int", "float", "bool"} THEN [ok |-> TRUE, val |-> FloatV(v.n)]
       ELSE IF v.t = "str" /\ IsIntText(v.s) THEN [ok |-> TRUE, val |-> FloatV(IntOfText(v.s))]
       ELSE [ok |-> FALSE, val |-> NoneV]
  ELSE IF v.t = "str" THEN [ok |-> TRUE, val |-> v]
       ELSE [ok |-> FALSE, val |-> NoneV]

\* schema(many=False).load(d) for a JSON dict d: the fields that validate, and
\* the names of those that do not.  Keys the schema does not declare are dropped.
LoadOne(d) ==
  LET present == DOMAIN SchemaFields \cap DOMAIN d
      good == {f \in present : LoadField(SchemaFields[f], d[f]).ok}
  IN [obj |-> [f \in good |-> LoadField(SchemaFields[f], d[f]).val],
      errs |-> present \ good]

\* schema(many=many).load(body): (obj, err).  err is the set of <<index, field>>
\* with a validation message (index 0 without many, "_schema" for a body of the
\* wrong shape); an empty err is falsy.
Load(many, body) ==
  CASE body.k = "none" -> [obj |-> NoneD, err |-> {}]
    [] body.k = "list" /\ many ->
         [obj |-> ListD([i \in 1..Len(body.l) |-> LoadOne(body.l[i]).obj]),
          err |-> {p \in (1..Len(body.l)) \X (DOMAIN SchemaFields) :
                    p[2] \in LoadOne(body.l[p[1]]).errs}]
    [] body.k = "obj" /\ many ->
         [obj |-> ListD([i \in 1..Cardinality(DOMAIN body.o) |-> EmptyObj]),
          err |-> {<<i, "_schema">> : i \in 1..Cardinality(DOMAIN body.o)}]
    [] body.k = "obj" /\ ~many ->
         [obj |-> ObjD(LoadOne(body.o).obj),
          err |-> {<<0, f>> : f \in LoadOne(body.o).errs}]
    [] body.k = "list" /\ ~many ->
         [obj |-> ObjD(EmptyObj), err |-> {<<0, "_schema">>}]

\* ------------------------------------------------------------ exceptions
\* An exception object.  cls is its class; hasData whether it has a .data
\* attribute; msgKind what data["message"] is ("dict", "str", or "absent");
\* msgArgs the argument names with a message inside data["message"]; errArgs
\* those inside data["errors"]; msgSchema what data["message"]["schema_errors"]
\* holds and topSchema what data["schema_errors"] holds.
Exc(cls, hasData, msgKind, msgArgs, errArgs) ==
  [cls |-> cls, hasData |-> hasData, msgKind |-> msgKind, msgArgs |-> msgArgs,
   errArgs |-> errArgs, msgSchema |-> {}, topSchema |-> {}]
\* error = None
NoError == Exc("None", FALSE, "absent", {}, {})

\* ------------------------------------------------------- request parsing
\* The positional arguments a route may hand to accepts(...): three argument
\* specifications and one positional that is not a dict.
ArgPool ==
  << [isDict |-> TRUE, name |-> "foo", type |-> "int", required |-> TRUE],
     [isDict |-> TRUE, name |-> "a_str", type |-> "str", required |-> FALSE],
     [isDict |-> TRUE, name |-> "a_bool", type |-> "bool", required |-> FALSE],
     [isDict |-> FALSE, name |-> "", type |-> "", required |-> FALSE] >>

RECURSIVE PickSeq(_, _)
\* The elements of seq at the indexes idx, in order.
PickSeq(seq, idx) ==
  IF idx = {} THEN <<>>
  ELSE LET m == CHOOSE i \in idx : \A j \in idx : j <= i
       IN Append(PickSeq(seq, idx \ {m}), seq[m])

\* query_params = [arg for arg in args if isinstance(arg, dict)]
QueryParams(args) == SelectSeq(args, LAMBDA a : a.isDict)

\* The parser built at decoration time: api.parser() when an api is given
\* (no bundling of errors), else RequestParser(bundle_errors=True); then one
\* add_argument per query parameter.
BuildParser(api, args) ==
  [bundle_errors |-> ~api, args |-> QueryParams(args)]

\* Convert without the coercion: the raw text is stored whatever the declared type.
ConvertNoCoerce(type, raw) == [ok |-> TRUE, val |-> StrV(raw)]

\* Argument.convert: the declared type applied to the raw text.
Convert(type, raw) ==
  CASE type = "int" -> IF IsIntText(raw) THEN [ok |-> TRUE, val |-> IntV(IntOfText(raw))]
                       ELSE [ok |-> FALSE, val |-> NoneV]
    [] type = "bool" -> [ok |-> TRUE, val |-> BoolV(Len(raw) > 0)]
    [] type = "str" -> [ok |-> TRUE, val |-> StrV(raw)]

\* Argument.parse against request.values: a missing required argument and a
\* failed conversion are errors; a missing optional argument is None.
ParseArg(spec, values) ==
  IF spec.name \in DOMAIN values THEN Convert(spec.type, values[spec.name])
  ELSE IF spec.required THEN [ok |-> FALSE, val |-> NoneV]
  ELSE [ok |-> TRUE, val |-> NoneV]

\* The exception RequestParser.parse_args() aborts with when the arguments
\* named failing fail: flask_restful puts them in data["message"] (a dict),
\* flask_restplus in data["errors"] beside a data["message"] that is text.
ParseError(lib, failing) ==
  IF lib = "flask_restful" THEN Exc("BadRequest", TRUE, "dict", failing, {})
  ELSE Exc("BadRequest", TRUE, "str", {}, failing)

\* _parser.parse_args(): the namespace (one entry per declared argument), or
\* the exception; without bundle_errors only the first failure is reported.
ParseArgsResult(lib, parser, values) ==
  LET bad == {i \in 1..Len(parser.args) : ~ParseArg(parser.args[i], values).ok}
      first == CHOOSE i \in bad : \A j \in bad : i <= j
      reported == IF parser.bundle_errors THEN bad ELSE {first}
      names == {parser.args[i].name : i \in 1..Len(parser.args)}
  IN IF bad = {}
     THEN [error |-> NoError,
           ns |-> [n \in names |->
                     LET i == CHOOSE j \in 1..Len(parser.args) : parser.args[j].name = n
                     IN ParseArg(parser.args[i], values).val]]
     ELSE [error |-> ParseError(lib, {parser.args[i].name : i \in reported}),
           ns |-> [n \in {} |-> NoneV]]

\* error = error or ValueError(...); then the schema's errors are put into
\* error.data["message"] when the error has a data attribute, and into a new
\* error.data otherwise.  raises names the exception the update itself raises
\* ("None" when it succeeds): data["message"] must be a dict for .update.
Merge(error, err) ==
  LET e == IF error = NoError THEN Exc("ValueError", FALSE, "absent", {}, {}) ELSE error
  IN IF e.hasData
     THEN CASE e.msgKind = "dict" -> [raises |-> "None", error |-> [e EXCEPT !.msgSchema = err]]
            [] e.msgKind = "str" -> [raises |-> "AttributeError", error |-> e]
            [] e.msgKind = "absent" -> [raises |-> "KeyError", error |-> e]
     ELSE [raises |-> "None", error |-> [e EXCEPT !.hasData = TRUE, !.topSchema = err]]

\* The framework's translation of what a view raised into a response status:
\* an HTTP exception answers with its own code, anything else is a server error.
HttpStatus(exc) == IF exc.cls = "BadRequest" THEN 400 ELSE 500

\* A request object shared by every caller instead of one per request context.
CurrentRequestShared(r) == 1

\* flask.request: the request object of the context the caller runs in.
CurrentRequest(r) == r

\* ------------------------------------------------------------------- state
VARIABLES
  lib,        \* the reqparse module accepts() imported
  api,        \* whether accepts() was given an api
  schema,     \* whether accepts() was given a schema
  many,       \* accepts()'s many flag
  args,       \* accepts()'s positional arguments
  parser,     \* _parser
  req,        \* each request: its query/form values and its JSON body
  pc,         \* each request's position in inner
  error,      \* inner's local variable error, per request
  attrs,      \* the attributes inner has set on each request object
  events,     \* what each invocation of inner has done so far, in order
  raised,     \* the exception that left inner, per request
  observed,   \* the request attributes the wrapped handler saw, per request
  status      \* the status of the response the client got, per request

accVars == <<lib, api, schema, many, args, parser, req, pc, error, attrs,
             events, raised, observed, status>>

VARIABLES
  rschema,    \* whether responds() was given a schema
  rmany,      \* responds()'s many flag
  wrapper,    \* the carrier class responds() was given, "None" without one
  func,       \* the declared parameter names of the callable responds() wraps
  ret,        \* the object the wrapped callable builds and returns
  heap,       \* the objects that exist, by identity
  rv,         \* inner's local variable rv: the identity of what func returned
  result,     \* the identity of what inner returned
  rraised,    \* the exception that left responds' inner
  dumps,      \* how many times a schema's dump was called
  rpc         \* the position in responds' inner

respVars == <<rschema, rmany, wrapper, func, ret, heap, rv, result, rraised, dumps, rpc>>

vars == <<accVars, respVars>>

\* ------------------------------------------------------------------ inputs
Chars == {"3", "b"}
Raws == SeqsUpTo(Chars, MaxRawLen)

\* The JSON dicts a body is made of: one the schema accepts (with a key the
\* schema does not declare), one whose id is not a number.
JsonDicts ==
  { [f \in {"id", "name", "extra"} |->
       CASE f = "id" -> IntV(1) [] f = "name" -> StrV(<<"x">>) [] f = "extra" -> BoolV(TRUE)],
    [f \in {"id", "name"} |-> IF f = "id" THEN StrV(<<"b">>) ELSE StrV(<<"x">>)] }

\* request.get_json() cannot decode the body.
Malformed == [k |-> "malformed", o |-> EmptyObj, l |-> <<>>]

Bodies ==
  {NoneD, Malformed} \cup {ObjD(d) : d \in JsonDicts}
    \cup {ListD(l) : l \in SeqsUpTo(JsonDicts, MaxItems)}

\* request.values of a request to a route declaring the arguments names.
ValuesOver(names, raws) == UNION {[S -> raws] : S \in SUBSET names}

ArgNames(p) == {p.args[i].name : i \in 1..Len(p.args)}

NoAttrs == [hasArgs |-> FALSE, parsed_args |-> [n \in {} |-> NoneV], parsed_obj |-> Unset]

\* The state after decoration, with the requests reqs received and not yet handled.
InitRequests(reqs, valueSet, bodySet) ==
  /\ req \in [reqs -> [values : valueSet, json : bodySet]]
  /\ pc = [r \in reqs |-> "start"]
  /\ error = [r \in reqs |-> NoError]
  /\ attrs = [r \in reqs |-> NoAttrs]
  /\ events = [r \in reqs |-> <<>>]
  /\ raised = [r \in reqs |-> NoError]
  /\ observed = [r \in reqs |-> NoAttrs]
  /\ status = [r \in reqs |-> 0]

InitAccepts ==
  /\ lib \in {"flask_restplus", "flask_restful"}
  /\ api \in BOOLEAN
  /\ api => lib = "flask_restplus"
  /\ schema \in BOOLEAN
  /\ many \in BOOLEAN
  /\ ~schema => ~many
  /\ \E idx \in SUBSET (1..Len(ArgPool)) : args = PickSeq(ArgPool, idx)
  /\ parser = BuildParser(api, args)
  /\ InitRequests({1}, ValuesOver(ArgNames(parser), Raws),
                  IF schema THEN Bodies ELSE {NoneD})

InitConcurrent ==
  /\ lib \in {"flask_restplus", "flask_restful"}
  /\ api = FALSE
  /\ schema \in BOOLEAN
  /\ many = FALSE
  /\ args = <<ArgPool[1]>>
  /\ parser = BuildParser(api, args)
  /\ InitRequests(1..NumReqs, ValuesOver(ArgNames(parser), {<<"3">>, <<"3", "3">>, <<"b">>}),
                  IF schema THEN {ObjD(d) : d \in JsonDicts} ELSE {NoneD})

\* ------------------------------------------------------------------ accepts
\* ParseArgs failing fast: the parser's exception leaves inner at once.
ParseArgsFailFast(r) ==
  /\ pc[r] = "start"
  /\ LET res == ParseArgsResult(lib, parser, req[r].values)
         c == CurrentRequest(r)
     IN IF res.error = NoError
        THEN /\ attrs' = [attrs EXCEPT ![c].hasArgs = TRUE, ![c].parsed_args = res.ns]
             /\ events' = [events EXCEPT ![r] = Append(@, "parse_args")]
             /\ pc' = [pc EXCEPT ![r] = "parsed"]
             /\ UNCHANGED <<error, raised>>
        ELSE /\ raised' = [raised EXCEPT ![r] = res.error]
             /\ error' = [error EXCEPT ![r] = res.error]
             /\ events' = [events EXCEPT ![r] = @ \o <<"parse_args", "raise">>]
             /\ pc' = [pc EXCEPT ![r] = "raised"]
             /\ UNCHANGED attrs
  /\ UNCHANGED <<lib, api, schema, many, args, parser, req, observed, status>>
  /\ UNCHANGED respVars

\* inner, lines 54-59: error = None; request.parsed_args = _parser.parse_args(),
\* any exception kept in error.
ParseArgs(r) ==
  /\ pc[r] = "start"
  /\ LET res == ParseArgsResult(lib, parser, req[r].values)
         c == CurrentRequest(r)
     IN /\ error' = [error EXCEPT ![r] = res.error]
        /\ attrs' = IF res.error = NoError
                    THEN [attrs EXCEPT ![c].hasArgs = TRUE, ![c].parsed_args = res.ns]
                    ELSE attrs
  /\ events' = [events EXCEPT ![r] = Append(@, "parse_args")]
  /\ pc' = [pc EXCEPT ![r] = "parsed"]
  /\ UNCHANGED <<lib, api, schema, many, args, parser, req, raised, observed, status>>
  /\ UNCHANGED respVars

\* inner, lines 61-70: with a schema, load the JSON body, merge the schema's
\* errors into error, set request.parsed_obj.  An exception of get_json() or
\* of the merge leaves inner at once.
SchemaStep(r) ==
  /\ pc[r] = "parsed"
  /\ LET c == CurrentRequest(r)
         body == req[c].json
         res == Load(many, body)
         m == Merge(error[r], res.err)
     IN CASE ~schema ->
               /\ pc' = [pc EXCEPT ![r] = "validated"]
               /\ UNCHANGED <<error, attrs, events, raised>>
          [] schema /\ body.k = "malformed" ->
               /\ raised' = [raised EXCEPT ![r] = Exc("BadRequest", FALSE, "absent", {}, {})]
               /\ events' = [events EXCEPT ![r] = @ \o <<"get_json", "raise">>]
               /\ pc' = [pc EXCEPT ![r] = "raised"]
               /\ UNCHANGED <<error, attrs>>
          [] schema /\ body.k # "malformed" /\ res.err # {} /\ m.raises # "None" ->
               /\ raised' = [raised EXCEPT ![r] = Exc(m.raises, FALSE, "absent", {}, {})]
               /\ events' = [events EXCEPT ![r] = @ \o <<"get_json", "load", "raise">>]
               /\ pc' = [pc EXCEPT ![r] = "raised"]
               /\ UNCHANGED <<error, attrs>>
          [] schema /\ body.k # "malformed" /\ res.err # {} /\ m.raises = "None" ->
               /\ error' = [error EXCEPT ![r] = m.error]
               /\ attrs' = [attrs EXCEPT ![c].parsed_obj = res.obj]
               /\ events' = [events EXCEPT ![r] = @ \o <<"get_json", "load">>]
               /\ pc' = [pc EXCEPT ![r] = "validated"]
               /\ UNCHANGED raised
          [] schema /\ body.k # "malformed" /\ res.err = {} ->
               /\ attrs' = [attrs EXCEPT ![c].parsed_obj = res.obj]
               /\ events' = [events EXCEPT ![r] = @ \o <<"get_json", "load">>]
               /\ pc' = [pc EXCEPT ![r] = "validated"]
               /\ UNCHANGED <<error, raised>>
  /\ UNCHANGED <<lib, api, schema, many, args, parser, req, observed, status>>
  /\ UNCHANGED respVars

\* RaiseOrCall swallowing the error: the handler is called whatever error holds.
RaiseOrCallAlways(r) ==
  /\ pc[r] = "validated"
  /\ observed' = [observed EXCEPT ![r] = attrs[CurrentRequest(r)]]
  /\ events' = [events EXCEPT ![r] = Append(@, "call")]
  /\ pc' = [pc EXCEPT ![r] = "called"]
  /\ UNCHANGED <<lib, api, schema, many, args, parser, req, error, attrs, status, raised>>
  /\ UNCHANGED respVars

\* inner, lines 72-76: raise the error if there is one, else call the wrapped
\* handler, which reads the request's attributes.
RaiseOrCall(r) ==
  /\ pc[r] = "validated"
  /\ IF error[r] # NoError
     THEN /\ raised' = [raised EXCEPT ![r] = error[r]]
          /\ events' = [events EXCEPT ![r] = Append(@, "raise")]
          /\ pc' = [pc EXCEPT ![r] = "raised"]
          /\ UNCHANGED observed
     ELSE /\ observed' = [observed EXCEPT ![r] = attrs[CurrentRequest(r)]]
          /\ events' = [events EXCEPT ![r] = Append(@, "call")]
          /\ pc' = [pc EXCEPT ![r] = "called"]
          /\ UNCHANGED raised
  /\ UNCHANGED <<lib, api, schema, many, args, parser, req, error, attrs, status>>
  /\ UNCHANGED respVars

\* The framework answers the client: the handler's 'success', or the
\* translation of the exception that left inner.
SendResponse(r) ==
  /\ pc[r] \in {"raised", "called"}
  /\ status' = [status EXCEPT ![r] = IF pc[r] = "called" THEN 200 ELSE HttpStatus(raised[r])]
  /\ pc' = [pc EXCEPT ![r] = "done"]
  /\ UNCHANGED <<lib, api, schema, many, args, parser, req, error, attrs, events,
                 raised, observed>>
  /\ UNCHANGED respVars

\* ----------------------------------------------------------------- responds
\* Field.serialize of the schema library, by field type: Number gives
\* float(value), String gives str(value).
DumpField(ftype, v) ==
  IF ftype = "Number"
  THEN IF v.t \in {"int", "float", "bool"} THEN [ok |-> TRUE, val |-> FloatV(v.n)]
       ELSE IF v.t = "str" /\ IsIntText(v.s) THEN [ok |-> TRUE, val |-> FloatV(IntOfText(v.s))]
       ELSE [ok |-> FALSE, val |-> NoneV]
  ELSE CASE v.t = "str" -> [ok |-> TRUE, val |-> v]
         [] v.t = "int" -> [ok |-> TRUE, val |-> StrV(TextOfInt(v.n))]
         [] v.t = "bool" -> [ok |-> TRUE, val |-> StrV(IF v.n = 1 THEN <<"T", "r", "u", "e">>
                                                        ELSE <<"F", "a", "l", "s", "e">>)]
         [] OTHER -> [ok |-> FALSE, val |-> NoneV]

\* schema(many=False).dump(o).data for a dict o: the declared fields o has and
\* that serialize; everything else of o is left out.
DumpOne(o) ==
  LET good == {f \in DOMAIN SchemaFields \cap DOMAIN o : DumpField(SchemaFields[f], o[f]).ok}
  IN [f \in good |-> DumpField(SchemaFields[f], o[f]).val]

\* An object that is no dict and no list, as the schema sees it: it has none
\* of the declared fields and cannot be iterated.
Instance == [k |-> "instance", o |-> EmptyObj, l |-> <<>>]

\* schema(many=many).dump(v).data.  With many, v is iterated: a list gives one
\* serialized object per element, in order; a dict is iterated over its keys,
\* none of which has a declared field.  Without many, a list or an instance
\* has no declared field.
Dump(isMany, v) ==
  CASE v.k = "list" /\ isMany -> ListD([i \in 1..Len(v.l) |-> DumpOne(v.l[i])])
    [] v.k = "obj" /\ isMany -> ListD([i \in 1..Cardinality(DOMAIN v.o) |-> EmptyObj])
    [] v.k = "obj" /\ ~isMany -> ObjD(DumpOne(v.o))
    [] OTHER -> ObjD(EmptyObj)

\* Whether schema(many=many).dump(v) raises: with many, an instance that
\* cannot be iterated is a TypeError.
DumpRaises(isMany, v) == isMany /\ v.k = "instance"

\* What schema.dump is handed when it is handed the object obj itself.
Dumped(obj) == IF obj.cls = "plain" THEN obj.value ELSE Instance

\* The classes an instance of cls is an instance of.  WrapperResponse is a
\* carrier class that derives from the framework's Response.
Bases(cls) ==
  CASE cls = "Response" -> {"Response"}
    [] cls = "Wrapper" -> {"Wrapper"}
    [] cls = "WrapperResponse" -> {"WrapperResponse", "Response"}
    [] OTHER -> {cls}

\* isinstance(obj, cls)
IsInstance(obj, cls) == cls \in Bases(obj.cls)

\* _is_method(func): "self" in inspect.signature(func).parameters
_is_method(f) == \E i \in 1..Len(f) : f[i] = "self"

\* Branch with the two tests in the other order: the wrapper is tested for first.
BranchWrapperFirst(obj, w) ==
  IF w # "None" /\ IsInstance(obj, w) THEN "wrapper"
  ELSE IF IsInstance(obj, "Response") THEN "response"
  ELSE "value"

\* Which of inner's three branches takes the returned object: a Response is
\* tested for first, then an instance of the configured wrapper.
Branch(obj, w) ==
  IF IsInstance(obj, "Response") THEN "response"
  ELSE IF w # "None" /\ IsInstance(obj, w) THEN "wrapper"
  ELSE "value"

\* An object: its class, its value (a carrier's value slot, a response's
\* body, a plain value itself), its status code, and whether it is a JSON
\* response made by jsonify.
Obj(cls, value, st, json) == [cls |-> cls, value |-> value, status |-> st, json |-> json]

\* The dicts a handler returns.
HandlerDicts ==
  { [f \in {"id", "name"} |-> IF f = "id" THEN IntV(1) ELSE StrV(<<"o", "n", "e">>)],
    [f \in {"id", "name", "extra"} |->
       CASE f = "id" -> IntV(2) [] f = "name" -> StrV(<<"t", "w", "o">>) [] f = "extra" -> IntV(5)],
    [f \in {"name"} |-> IntV(12)] }

HandlerValues ==
  {ObjD(d) : d \in HandlerDicts} \cup {ListD(l) : l \in SeqsUpTo(HandlerDicts, MaxItems)}

\* What a handler may return: a finished response, a carrier, a carrier that
\* is itself a response, or a plain value.
ReturnObjects ==
  {Obj(c, v, st, FALSE) : c \in {"Response", "WrapperResponse"},
                          v \in {NoneD, ObjD(CHOOSE d \in HandlerDicts : DOMAIN d = {"id", "name"})},
                          st \in {200, 404}}
    \cup {Obj("Wrapper", v, st, FALSE) : v \in HandlerValues, st \in {200, 201}}
    \cup {Obj("plain", v, 0, FALSE) : v \in HandlerValues}

ParamNames == {"self", "x", "y"}
\* The parameter lists a callable may declare: no name twice.
ParamLists ==
  {f \in SeqsUpTo(ParamNames, MaxParams) : \A i, j \in 1..Len(f) : f[i] = f[j] => i = j}

NoObj == Obj("None", NoneD, 0, FALSE)

InitResponds ==
  /\ rschema \in BOOLEAN
  /\ rmany \in BOOLEAN
  /\ wrapper \in {"None", "Wrapper", "WrapperResponse"}
  /\ func \in ParamLists
  /\ ret \in ReturnObjects
  /\ heap = [o \in {} |-> NoObj]
  /\ rv = 0
  /\ result = 0
  /\ rraised = "None"
  /\ dumps = 0
  /\ rpc = "start"

\* inner, line 119: rv = func(*args, **kwargs)
CallFunc ==
  /\ rpc = "start"
  /\ heap' = (1 :> ret)
  /\ rv' = 1
  /\ rpc' = "returned"
  /\ UNCHANGED <<rschema, rmany, wrapper, func, ret, result, rraised, dumps>>
  /\ UNCHANGED accVars

\* inner, lines 122-123: a Response is passed through.
PassResponse ==
  /\ rpc = "returned"
  /\ Branch(heap[rv], wrapper) = "response"
  /\ result' = rv
  /\ rpc' = "done"
  /\ UNCHANGED <<rschema, rmany, wrapper, func, ret, heap, rv, rraised, dumps>>
  /\ UNCHANGED accVars

\* DumpWrapper falling through to the plain-value return: the serialized value
\* leaves the carrier, as a JSON response for a function and bare for a method.
DumpWrapperFallThrough ==
  /\ rpc = "returned"
  /\ Branch(heap[rv], wrapper) = "wrapper"
  /\ IF rschema
     THEN LET serialized == Dump(rmany, heap[rv].value)
              new == Cardinality(DOMAIN heap) + 1
          IN /\ heap' = [heap EXCEPT ![rv].value = serialized]
                          @@ (new :> IF ~_is_method(func)
                                     THEN Obj("Response", serialized, 200, TRUE)
                                     ELSE Obj("plain", serialized, 0, FALSE))
             /\ dumps' = dumps + 1
             /\ result' = new
             /\ rpc' = "done"
             /\ UNCHANGED rraised
     ELSE /\ rraised' = "TypeError"
          /\ rpc' = "raised"
          /\ UNCHANGED <<heap, dumps, result>>
  /\ UNCHANGED <<rschema, rmany, wrapper, func, ret, rv>>
  /\ UNCHANGED accVars

\* inner, lines 125-127: rv.value = schema(many=many).dump(rv.value).data;
\* return rv.  Calling a schema of None is a TypeError.
DumpWrapper ==
  /\ rpc = "returned"
  /\ Branch(heap[rv], wrapper) = "wrapper"
  /\ IF rschema
     THEN /\ heap' = [heap EXCEPT ![rv].value = Dump(rmany, @)]
          /\ dumps' = dumps + 1
          /\ result' = rv
          /\ rpc' = "done"
          /\ UNCHANGED rraised
     ELSE /\ rraised' = "TypeError"
          /\ rpc' = "raised"
          /\ UNCHANGED <<heap, dumps, result>>
  /\ UNCHANGED <<rschema, rmany, wrapper, func, ret, rv>>
  /\ UNCHANGED accVars

\* inner, lines 128-132: serialized = schema(many=many).dump(rv).data; a
\* callable that is not a method gets jsonify(serialized), a method serialized.
\* Calling a schema of None, and iterating an instance, are TypeErrors.
DumpValue ==
  /\ rpc = "returned"
  /\ Branch(heap[rv], wrapper) = "value"
  /\ IF rschema /\ ~DumpRaises(rmany, Dumped(heap[rv]))
     THEN LET serialized == Dump(rmany, Dumped(heap[rv]))
              new == Cardinality(DOMAIN heap) + 1
          IN /\ heap' = heap @@ (new :> IF ~_is_method(func)
                                          THEN Obj("Response", serialized, 200, TRUE)
                                          ELSE Obj("plain", serialized, 0, FALSE))
             /\ dumps' = dumps + 1
             /\ result' = new
             /\ rpc' = "done"
             /\ UNCHANGED rraised
     ELSE /\ rraised' = "TypeError"
          /\ dumps' = IF rschema THEN dumps + 1 ELSE dumps
          /\ rpc' = "raised"
          /\ UNCHANGED <<heap, result>>
  /\ UNCHANGED <<rschema, rmany, wrapper, func, ret, rv>>
  /\ UNCHANGED accVars

\* ---------------------------------------------------------- specifications
\* No route is decorated with accepts and no request is in flight.
IdleAccepts ==
  /\ lib = "flask_restful" /\ api = FALSE /\ schema = FALSE /\ many = FALSE
  /\ args = <<>> /\ parser = BuildParser(FALSE, <<>>)
  /\ InitRequests({}, {}, {})

\* No callable is decorated with responds.
IdleResponds ==
  /\ rschema = FALSE /\ rmany = FALSE /\ wrapper = "None" /\ func = <<>>
  /\ ret = NoObj /\ heap = [o \in {} |-> NoObj] /\ rv = 0 /\ result = 0
  /\ rraised = "None" /\ dumps = 0 /\ rpc = "idle"

NextAccepts ==
  \/ \E r \in DOMAIN req : ParseArgs(r)
  \/ \E r \in DOMAIN req : SchemaStep(r)
  \/ \E r \in DOMAIN req : RaiseOrCall(r)
  \/ \E r \in DOMAIN req : SendResponse(r)

NextResponds == CallFunc \/ PassResponse \/ DumpWrapper \/ DumpValue

\* One request to a route decorated with accepts.
InitA == InitAccepts /\ IdleResponds
\* Several requests in flight to one route decorated with accepts.
InitC == InitConcurrent /\ IdleResponds
\* One call of a callable decorated with responds.
InitR == InitResponds /\ IdleAccepts

SpecAccepts == InitA /\ [][NextAccepts]_vars
SpecConcurrent == InitC /\ [][NextAccepts]_vars
SpecResponds == InitR /\ [][NextResponds]_vars

\* ------------------------------------------------------ claims: accepts
\* Request r's arguments are invalid: a declared required argument is
\* missing, or a supplied one is not of its declared type.
InvalidArgs(r) ==
  \E i \in 1..Len(args) :
    /\ args[i].isDict
    /\ \/ args[i].required /\ args[i].name \notin DOMAIN req[r].values
       \/ /\ args[i].name \in DOMAIN req[r].values
          /\ args[i].type = "int"
          /\ ~IsIntText(req[r].values[args[i].name])

\* Request r's JSON body fails the configured schema's validation.
InvalidBody(r) ==
  schema /\ req[r].json.k # "malformed" /\ Load(many, req[r].json).err # {}

\* inner has ended for request r, by raising or by calling the handler.
Ended(r) == pc[r] \in {"raised", "called", "done"}

\* C1: when a request's arguments fail to parse and its body fails the
\* schema, the one error raised carries, in its data, the argument messages
\* and a schema_errors entry with the schema's errors; merging raises nothing else.
C1_BothFailuresInOneError ==
  \A r \in DOMAIN req :
    (Ended(r) /\ InvalidArgs(r) /\ InvalidBody(r)) =>
       /\ "raise" \in {events[r][i] : i \in 1..Len(events[r])}
       /\ raised[r].cls \notin {"AttributeError", "KeyError"}
       /\ raised[r].hasData
       /\ raised[r].msgArgs \cup raised[r].errArgs # {}
       /\ raised[r].msgSchema \cup raised[r].topSchema = Load(many, req[r].json).err

\* C2: every request whose arguments or body are invalid is answered with a
\* 400-class status.
C2_InvalidInputIsClientError ==
  \A r \in DOMAIN req :
    (pc[r] = "done" /\ (InvalidArgs(r) \/ InvalidBody(r))) => status[r] \in 400..499

\* C3: the wrapped handler is called exactly when neither argument parsing
\* nor the schema step produced an error; otherwise an error is raised and
\* the handler is never run.
C3_HandlerCalledIffNoError ==
  \A r \in DOMAIN req :
    LET ev == {events[r][i] : i \in 1..Len(events[r])}
        failed == InvalidArgs(r) \/ InvalidBody(r)
                    \/ (schema /\ req[r].json.k = "malformed")
    IN /\ "call" \in ev => ~failed
       /\ Ended(r) => /\ ("call" \in ev) = ~failed
                      /\ ("raise" \in ev) = failed
                      /\ failed => raised[r] # NoError /\ observed[r] = NoAttrs

C3_Witness ==
  \E r \in DOMAIN req :
    /\ pc[r] = "raised" /\ InvalidArgs(r) /\ ~InvalidBody(r) /\ schema
    /\ req[r].json.k = "obj"
    /\ raised[r].cls = "BadRequest"

\* The specification accepts() was given for the argument named n.
SpecOf(n) == args[CHOOSE i \in 1..Len(args) : args[i].isDict /\ args[i].name = n]

\* C4: when the handler is called it sees, on its own request, one parsed
\* argument per declared specification, each of its declared type (None when
\* the optional argument was not sent; foo=3 declared int is the integer 3),
\* and, with a schema, the deserialized body.
C4_HandlerSeesParsedState ==
  \A r \in DOMAIN req :
    "call" \in {events[r][i] : i \in 1..Len(events[r])} =>
      /\ observed[r].hasArgs
      /\ DOMAIN observed[r].parsed_args = {args[i].name : i \in {j \in 1..Len(args) : args[j].isDict}}
      /\ \A n \in DOMAIN observed[r].parsed_args :
           LET v == observed[r].parsed_args[n]
           IN IF n \notin DOMAIN req[r].values THEN v = NoneV
              ELSE /\ v.t = SpecOf(n).type
                   /\ v.t = "int" => TextOfInt(v.n) = req[r].values[n]
                   /\ v.t = "str" => v.s = req[r].values[n]
                   /\ v.t = "bool" => (v.n = 1) = (req[r].values[n] # <<>>)
                   /\ (n = "foo" /\ req[r].values[n] = <<"3">>) => v = IntV(3)
      /\ schema =>
           /\ observed[r].parsed_obj # Unset
           /\ observed[r].parsed_obj = Load(many, req[r].json).obj
           /\ (many /\ req[r].json.k = "list") =>
                /\ Len(observed[r].parsed_obj.l) = Len(req[r].json.l)
                /\ \A i \in 1..Len(req[r].json.l) :
                     observed[r].parsed_obj.l[i] =
                       [f \in {"id", "name"} |-> IF f = "id" THEN FloatV(req[r].json.l[i]["id"].n)
                                                 ELSE req[r].json.l[i]["name"]]
      /\ ~schema => observed[r].parsed_obj = Unset

C4_Witness ==
  \E r \in DOMAIN req :
    /\ pc[r] = "called" /\ schema /\ many
    /\ "foo" \in DOMAIN observed[r].parsed_args
    /\ "a_bool" \in DOMAIN observed[r].parsed_args
    /\ observed[r].parsed_args["foo"] = IntV(3)
    /\ observed[r].parsed_args["a_bool"] = BoolV(TRUE)
    /\ observed[r].parsed_obj.k = "list" /\ Len(observed[r].parsed_obj.l) = 2

\* C8: inner first attempts argument parsing, then (with a schema) reads and
\* loads the JSON body, and only then raises or calls the handler; a failed
\* argument parse neither raises at once nor keeps the schema step from running.
C8_ParseThenSchemaThenRaise ==
  \A r \in DOMAIN req :
    LET ev == events[r]
    IN /\ \A i \in 1..Len(ev) :
            ev[i] \in {"raise", "call"} =>
               /\ i = Len(ev)
               /\ ev[1] = "parse_args"
               /\ schema => i >= 3 /\ ev[2] = "get_json"
               /\ (schema /\ req[r].json.k # "malformed") => i = 4 /\ ev[3] = "load"
       /\ Len(ev) > 0 => ev[1] = "parse_args"
       /\ (Ended(r) /\ schema /\ InvalidArgs(r)) =>
            /\ Len(ev) >= 3 /\ ev[2] = "get_json"
            /\ req[r].json.k # "malformed" => ev[3] = "load"
       /\ (pc[r] = "parsed" /\ InvalidArgs(r)) => ev = <<"parse_args">> /\ raised[r] = NoError

C8_Witness ==
  \E r \in DOMAIN req :
    /\ InvalidArgs(r) /\ InvalidBody(r)
    /\ events[r] = <<"parse_args", "get_json", "load", "raise">>

\* C10: no invocation changes what another request sees: the parser keeps
\* exactly the argument specifications given at decoration time at every
\* step, and a handler sees the arguments and the object parsed from its own
\* request, whatever other requests are in flight.
C10_RequestsDoNotShareState ==
  [][ /\ parser' = parser
      /\ parser'.args = QueryParams(args)
      /\ \A r \in DOMAIN req :
           pc'[r] \in {"called", "done"} /\ status'[r] \in {0, 200} =>
             /\ observed'[r].hasArgs
             /\ \A n \in DOMAIN observed'[r].parsed_args :
                  IF n \in DOMAIN req[r].values
                  THEN TextOfInt(observed'[r].parsed_args[n].n) = req[r].values[n]
                  ELSE observed'[r].parsed_args[n] = NoneV
             /\ schema => observed'[r].parsed_obj = ObjD(LoadOne(req[r].json.o).obj)
    ]_vars

C10_Witness ==
  /\ Cardinality(DOMAIN req) >= 2
  /\ \E r1, r2 \in DOMAIN req :
       /\ r1 # r2 /\ pc[r1] = "called" /\ pc[r2] = "called" /\ schema
       /\ observed[r1].parsed_args["foo"] = IntV(3)
       /\ observed[r2].parsed_args["foo"] = IntV(33)

\* ----------------------------------------------------- claims: responds
\* The callable's first declared parameter is named self.
FirstParamIsSelf(f) == Len(f) > 0 /\ f[1] = "self"

\* The handler's dict d as the schema serializes it: id as a float, name as text.
SerializedOf(d) ==
  [f \in DOMAIN d \cap {"id", "name"} |->
     IF f = "id" THEN FloatV(d[f].n)
     ELSE IF d[f].t = "int" THEN StrV(TextOfInt(d[f].n)) ELSE d[f]]

\* C5: a handler's return value that is already a framework response is
\* returned as the same object, body and status untouched, and no schema
\* dump is called, whatever schema, many and wrapper are.
C5_ResponsePassedThrough ==
  (rpc \in {"returned", "done", "raised"} /\ IsInstance(ret, "Response")) =>
     /\ dumps = 0
     /\ rpc # "raised"
     /\ heap = (1 :> ret)
     /\ rpc = "done" => result = rv /\ rv = 1

C5_Witness ==
  /\ rpc = "done" /\ result = 1 /\ heap[1] = ret
  /\ ret.cls = "WrapperResponse" /\ wrapper = "WrapperResponse" /\ rschema
  /\ ret.status = 404

\* C6: with a carrier type configured and a handler that returns an
\* instance of it that is no framework response, the decorator writes the
\* schema's serialization of the carrier's value back into the value slot,
\* changes nothing else of the carrier, and returns that same carrier, not a
\* JSON response, for a function and for a method alike.
C6_CarrierValueSerializedInPlace ==
  (/\ rpc = "done" /\ rschema /\ wrapper # "None"
   /\ IsInstance(ret, wrapper) /\ ~IsInstance(ret, "Response")) =>
     /\ result = rv /\ rv = 1
     /\ DOMAIN heap = {1}
     /\ heap[1].cls = ret.cls /\ heap[1].status = ret.status /\ heap[1].json = ret.json
     /\ dumps = 1
     /\ heap[1].value.k = (IF rmany THEN "list" ELSE "obj")
     /\ (rmany /\ ret.value.k = "list") =>
          /\ Len(heap[1].value.l) = Len(ret.value.l)
          /\ \A i \in 1..Len(ret.value.l) : heap[1].value.l[i] = SerializedOf(ret.value.l[i])
     /\ (~rmany /\ ret.value.k = "obj") => heap[1].value.o = SerializedOf(ret.value.o)

C6_Witness ==
  /\ rpc = "done" /\ rschema /\ rmany /\ wrapper = "Wrapper" /\ ret.cls = "Wrapper"
  /\ ret.status = 201 /\ heap[result].status = 201
  /\ ret.value.k = "list" /\ Len(ret.value.l) = 2 /\ ret.value.l[1] # ret.value.l[2]
  /\ heap[result].value.l[1] # ret.value.l[1]
  /\ func = <<"self">>

\* C7: a return value that is neither a response nor a configured carrier
\* instance is serialized through the schema; a plain route function gets the
\* serialization wrapped in a JSON response, a method (first parameter self)
\* gets the bare serialization; with many a list of n objects gives the n
\* serialized objects in the same order.
C7_FunctionGetsJsonMethodGetsPayload ==
  (rpc = "done" /\ rschema /\ Branch(ret, wrapper) = "value") =>
     /\ result # rv
     /\ IF FirstParamIsSelf(func)
        THEN heap[result].cls = "plain" /\ ~heap[result].json
        ELSE heap[result].cls = "Response" /\ heap[result].json
     /\ (ret.cls = "plain" /\ rmany /\ ret.value.k = "list") =>
          /\ Len(heap[result].value.l) = Len(ret.value.l)
          /\ \A i \in 1..Len(ret.value.l) :
               heap[result].value.l[i] = SerializedOf(ret.value.l[i])
     /\ (ret.cls = "plain" /\ ~rmany /\ ret.value.k = "obj") =>
          heap[result].value.o = SerializedOf(ret.value.o)

\* C9: _is_method is true exactly when the first declared parameter is named
\* self (false for no parameters and for a self in a later position), and
\* responds takes its method branch on that same answer.
C9_IsMethodIffFirstParamIsSelf ==
  (rpc = "done" /\ rschema /\ Branch(ret, wrapper) = "value") =>
     /\ _is_method(func) = FirstParamIsSelf(func)
     /\ (heap[result].cls = "plain") = _is_method(func)

====
